---- MODULE Spec2Model ----
(***************************************************************************)
(* A model of the aych-delay stereo delay effect: Delay::new and           *)
(* Delay::process (src/src/lib.rs) and the TPT one-pole filter             *)
(* (src/src/filters/tptonepole.rs).                                        *)
(*                                                                         *)
(* Samples are f32 in the code.  Here a sample is an exact dyadic rational *)
(* [n, e] standing for n / 2^e, kept normalised (n odd, or e = 0), so      *)
(* that equality of records is equality of numbers.  Rounding of f32 is    *)
(* not modelled; every parameter value used is exactly representable.      *)
(*                                                                         *)
(* A Rust panic (index out of bounds) ends the call where it happens, with *)
(* the mutations made so far kept; the variable panic records its place.   *)
(***************************************************************************)
EXTENDS Integers, Sequences, FiniteSets, TLC

\* ------------------------------------------------------------------ bounds

\* Total number of stereo pairs fed to one Delay over all its process calls.
MaxPairs == 3
\* Longest input slice (in samples) of one process call.
MaxInLen == 4
\* Longest output slice (in samples) of one process call.
MaxOutLen == 4

\* -------------------------------------------------------------- arithmetic

RECURSIVE Norm(_, _)
Norm(n, e) == IF e > 0 /\ n % 2 = 0 THEN Norm(n \div 2, e - 1) ELSE [n |-> n, e |-> e]

Num(k) == [n |-> k, e |-> 0]
Frac(k, e) == Norm(k, e)
Zero == Num(0)
One == Num(1)
Half == Frac(1, 1)

Add(a, b) ==
    IF a.e > b.e
    THEN Norm(a.n + b.n * 2^(a.e - b.e), a.e)
    ELSE Norm(a.n * 2^(b.e - a.e) + b.n, b.e)
Neg(a) == [n |-> 0 - a.n, e |-> a.e]
Sub(a, b) == Add(a, Neg(b))
Mul(a, b) == Norm(a.n * b.n, a.e + b.e)

\* ---------------------------------------------------------------- settings

SAMPLE_RATE == 44100

\* Settings.delay_time is held in microseconds (the code's milliseconds
\* times 1000), so that the sizes of a few samples are whole numbers.
DelayTimes == {-10, 0, 40, 46}
Feedbacks == {Zero, Half}
Widths == {Zero, Half, One}
Mixes == {Half, One}
Levels == {Half, One}
Cutoffs == {4517}

\* The width only matters with ping_pong: without it the default (1.0) is kept.
SettingsSet ==
    { s \in [delay_time : DelayTimes, output_level : Levels, feedback : Feedbacks,
             ping_pong : BOOLEAN, width : Widths, phase_reverse : BOOLEAN,
             lowpass_filter : Cutoffs, highpass_filter : Cutoffs, dry_wet_mix : Mixes] :
        ~s.ping_pong => s.width = One }

\* ------------------------------------------------------------------ filter

MIN_FREQ == 5
MAX_FREQ == 22000
\* MAX_FREQ * NORMALIZED_FREQ_LIMIT (0.49), the upper clamp of the cutoff.
ClampedMaxFreq == (MAX_FREQ * 49) \div 100

\* get_coefficient: b = g / (1 + g), g = tan(pi * freq_hz / sample_rate).
\* The tangent is tabulated, coarsely, by the cutoffs whose coefficient is
\* dyadic at 44.1 kHz: b = 1/8 at 1993 Hz (g = 1/7), b = 1/4 at 4517 Hz
\* (g = 1/3), b = 3/8 at 7586 Hz (g = 3/5).
get_coefficient(sample_rate, freq_hz) ==
    CASE freq_hz <= 1993 -> Frac(1, 3)
      [] freq_hz > 1993 /\ freq_hz <= 4517 -> Frac(1, 2)
      [] OTHER -> Frac(3, 3)

TPTOnePole_new(mode, sample_rate, freq_hz) ==
    LET clamped == IF freq_hz < MIN_FREQ THEN MIN_FREQ
                   ELSE IF freq_hz > ClampedMaxFreq THEN ClampedMaxFreq
                   ELSE freq_hz
    IN [mode |-> mode, b |-> get_coefficient(sample_rate, clamped), z1 |-> Zero]

\* Each process_* gives the filter after the call and the value returned.
process_lpf(f, input) ==
    LET next(vn, lpf) == [filter |-> [f EXCEPT !.z1 = Add(vn, lpf)], out |-> lpf]
        low(vn) == next(vn, Add(vn, f.z1))
    IN low(Mul(Sub(input, f.z1), f.b))

process_hpf(f, input) ==
    LET high(r) == [filter |-> r.filter, out |-> Sub(input, r.out)]
    IN high(process_lpf(f, input))

process_apf(f, input) ==
    LET all(r) == [filter |-> r.filter, out |-> Sub(r.out, Sub(input, r.out))]
    IN all(process_lpf(f, input))

TPTOnePole_process(f, input) ==
    CASE f.mode = "LOWPASS" -> process_lpf(f, input)
      [] f.mode = "HIGHPASS" -> process_hpf(f, input)
      [] f.mode = "ALLPASS" -> process_apf(f, input)

TPTOnePoleStereo_new(mode, sample_rate, freq_hz) ==
    [left |-> TPTOnePole_new(mode, sample_rate, freq_hz),
     right |-> TPTOnePole_new(mode, sample_rate, freq_hz)]

TPTOnePoleStereo_process(f, input) ==
    LET both(l, r) ==
            [filter |-> [left |-> l.filter, right |-> r.filter], out |-> <<l.out, r.out>>]
    IN both(TPTOnePole_process(f.left, input[1]), TPTOnePole_process(f.right, input[2]))

\* ------------------------------------------------------------------- Delay

MS_PER_SECOND == 1000

\* The f32 product (delay_time / 1000.0) * SAMPLE_RATE as a fraction
\* <<numerator, denominator>> of samples, delay_time being in microseconds.
delay_buffer_size(settings) ==
    <<settings.delay_time * SAMPLE_RATE, MS_PER_SECOND * 1000>>

\* A cast that rounds to the nearest integer instead of truncating.
as_usize_nearest(x) == IF x[1] <= 0 THEN 0 ELSE (2 * x[1] + x[2]) \div (2 * x[2])

\* Rust's `x as usize` on a float: truncation toward zero, negatives give 0.
as_usize(x) == IF x[1] <= 0 THEN 0 ELSE x[1] \div x[2]

Delay_new(settings) ==
    [delay_buffer |-> [i \in 1..as_usize(delay_buffer_size(settings)) |-> <<Zero, Zero>>],
     delay_buffer_index |-> 0,
     lowpass_filter |-> TPTOnePoleStereo_new("LOWPASS", SAMPLE_RATE, settings.lowpass_filter),
     highpass_filter |-> TPTOnePoleStereo_new("HIGHPASS", SAMPLE_RATE, settings.highpass_filter)]

\* input.chunks(2): the slices of two samples, the last one shorter when the
\* length is odd.
chunks2(input) ==
    [k \in 1..((Len(input) + 1) \div 2) |->
        SubSeq(input, 2 * k - 1, IF 2 * k <= Len(input) THEN 2 * k ELSE Len(input))]

\* Feedback scaling and phase reverse of the raw delay-line value.
feedback_phase(settings, delay_sample) ==
    LET phase(fb) == IF settings.phase_reverse THEN << Neg(fb[1]), Neg(fb[2]) >> ELSE fb
    IN phase(<< Mul(delay_sample[1], settings.feedback),
                Mul(delay_sample[2], settings.feedback) >>)

\* A write that leaves the ping-pong branch out.
buffer_write_plain(settings, input_sample, delay_sample) ==
    << Add(input_sample[1], delay_sample[1]), Add(input_sample[2], delay_sample[2]) >>

\* The value stored in the delay buffer for one pair.
buffer_write(settings, input_sample, delay_sample) ==
    IF settings.ping_pong
    THEN LET sum(pp_input, pp_delay) ==
                 << Add(pp_input[1], pp_delay[1]), Add(pp_input[2], pp_delay[2]) >>
             remix(width) ==
                 sum(<< Mul(input_sample[1], Sub(One, width)),
                        Mul(input_sample[2], width) >>,
                     << Add(Mul(delay_sample[1], Sub(One, width)),
                            Mul(delay_sample[2], width)),
                        Add(Mul(delay_sample[2], Sub(One, width)),
                            Mul(delay_sample[1], width)) >>)
         IN remix(Add(Mul(settings.width, Half), Half))
    ELSE << Add(input_sample[1], delay_sample[1]),
            Add(input_sample[2], delay_sample[2]) >>

\* A mix that takes the wet signal after the ping-pong remix (the value
\* stored in the delay buffer) instead of before it.
output_sample_stored(settings, input_sample, delay_sample) ==
    LET level(mixed) ==
            << Mul(mixed[1], settings.output_level), Mul(mixed[2], settings.output_level) >>
        mix(wet) ==
            level(<< Add(Mul(Sub(One, settings.dry_wet_mix), input_sample[1]),
                         Mul(settings.dry_wet_mix, wet[1])),
                     Add(Mul(Sub(One, settings.dry_wet_mix), input_sample[2]),
                         Mul(settings.dry_wet_mix, wet[2])) >>)
    IN mix(buffer_write(settings, input_sample, delay_sample))

\* The dry/wet mix and the output level.
output_sample(settings, input_sample, delay_sample) ==
    LET level(mixed) ==
            << Mul(mixed[1], settings.output_level), Mul(mixed[2], settings.output_level) >>
    IN level(<< Add(Mul(Sub(One, settings.dry_wet_mix), input_sample[1]),
                    Mul(settings.dry_wet_mix, delay_sample[1])),
                Add(Mul(Sub(One, settings.dry_wet_mix), input_sample[2]),
                    Mul(settings.dry_wet_mix, delay_sample[2])) >>)

\* The slot of the delay buffer that one pair reads.
read_slot(st) == st.delay_buffer_index

\* A write into the slot after the one that was read.
write_slot_next(st) == (st.delay_buffer_index + 1) % Len(st.delay_buffer)

\* The slot of the delay buffer that one pair overwrites.
write_slot(st) == st.delay_buffer_index

\* A cursor that is incremented and never wrapped.
advance_unwrapped(st) == st.delay_buffer_index + 1

\* The cursor after one pair.
advance(st) == (st.delay_buffer_index + 1) % Len(st.delay_buffer)

\* One pair, from the read of the delay line to the output level: the state
\* with the filters run and the buffer slot overwritten (cursor not yet
\* advanced), the raw value read, the value stored and the output pair.
process_pair(settings, st, input_sample) ==
    LET written(raw, lp, hp, stored) ==
            [state |-> [st EXCEPT !.lowpass_filter = lp.filter,
                                  !.highpass_filter = hp.filter,
                                  !.delay_buffer[write_slot(st) + 1] = stored],
             read |-> raw,
             stored |-> stored,
             delayed |-> hp.out,
             out |-> output_sample(settings, input_sample, hp.out)]
        highpassed(raw, lp, hp) ==
            written(raw, lp, hp, buffer_write(settings, input_sample, hp.out))
        lowpassed(raw, lp) ==
            highpassed(raw, lp, TPTOnePoleStereo_process(st.highpass_filter, lp.out))
        delayed(raw) ==
            lowpassed(raw, TPTOnePoleStereo_process(st.lowpass_filter,
                                                     feedback_phase(settings, raw)))
    IN delayed(st.delay_buffer[read_slot(st) + 1])

\* ----------------------------------------------------------------- process

VARIABLES
    settings,   \* Delay.settings
    state,      \* Delay.state
    output,     \* the caller's output slice after the last process call
    panic,      \* "none", or the place where the last call panicked
    call,       \* the last call: its slices' lengths and the pairs it completed
    handled,    \* pairs completed over all calls (cursor advanced)
    consumed,   \* history: the input pairs read, in order
    reads,      \* history: the raw delay-line value read for each pair
    writes,     \* history: the value stored in the delay buffer for each pair
    produced    \* history: the output pairs written, in order

vars == <<settings, state, output, panic, call, handled, consumed, reads, writes, produced>>

\* The while loop of process, from the run record r (the state, the output
\* slice, both indices and the histories) to the record at the loop's exit
\* or at the panic.
RECURSIVE process_loop(_, _, _)
process_loop(s, input_stereo, r) ==
    IF ~(r.input_index < Len(input_stereo) /\ r.output_index < Len(r.output))
    THEN r
    ELSE IF r.state.delay_buffer_index >= Len(r.state.delay_buffer)
    THEN [r EXCEPT !.panic = "delay_buffer"]
    ELSE
        LET emit(p, r1) ==
                IF r.output_index * 2 >= Len(r.output)
                THEN [r1 EXCEPT !.panic = "output"]
                ELSE IF r.output_index * 2 + 1 >= Len(r.output)
                THEN [r1 EXCEPT !.panic = "output",
                                !.output[r.output_index * 2 + 1] = p.out[1]]
                ELSE process_loop(s, input_stereo,
                         [r1 EXCEPT !.output[r.output_index * 2 + 1] = p.out[1],
                                    !.output[r.output_index * 2 + 2] = p.out[2],
                                    !.produced = Append(@, p.out),
                                    !.input_index = @ + 1,
                                    !.output_index = @ + 1,
                                    !.handled = @ + 1,
                                    !.state.delay_buffer_index = advance(p.state)])
            body(input_sample, p) ==
                emit(p, [r EXCEPT !.state = p.state,
                                  !.consumed = Append(@, input_sample),
                                  !.reads = Append(@, p.read),
                                  !.writes = Append(@, p.stored)])
            pair(input_sample) == body(input_sample, process_pair(s, r.state, input_sample))
        IN pair(input_stereo[r.input_index + 1])

\* Delay::process on the slices input and out (the output slice as the
\* caller passes it).
process(s, st, input, out, hist) ==
    LET run(start, chunks) ==
            IF \E k \in 1..Len(chunks) : Len(chunks[k]) < 2
            THEN [start EXCEPT !.panic = "input_chunk"]
            ELSE process_loop(s, [k \in 1..Len(chunks) |-> << chunks[k][1], chunks[k][2] >>],
                              start)
    IN run([state |-> st, output |-> out, input_index |-> 0, output_index |-> 0,
            panic |-> "none", handled |-> hist.handled, consumed |-> hist.consumed,
            reads |-> hist.reads, writes |-> hist.writes, produced |-> hist.produced],
           chunks2(input))

RECURSIVE SeqsUpTo(_, _)
SeqsUpTo(S, n) ==
    IF n = 0 THEN {<<>>}
    ELSE LET longer(shorter) ==
                 shorter \cup {Append(q, x) : q \in {t \in shorter : Len(t) = n - 1}, x \in S}
         IN longer(SeqsUpTo(S, n - 1))

Init ==
    /\ settings \in SettingsSet
    /\ state = Delay_new(settings)
    /\ output = <<>>
    /\ panic = "none"
    /\ call = [in_len |-> 0, out_len |-> 0, pairs |-> 0]
    /\ handled = 0
    /\ consumed = <<>>
    /\ reads = <<>>
    /\ writes = <<>>
    /\ produced = <<>>

Process(input, out_len) ==
    /\ panic = "none"
    /\ handled + Len(input) \div 2 <= MaxPairs
    /\ \E r \in { process(settings, state, input, [i \in 1..out_len |-> Zero],
                           [handled |-> handled, consumed |-> consumed, reads |-> reads,
                            writes |-> writes, produced |-> produced]) } :
          /\ state' = r.state
          /\ output' = r.output
          /\ panic' = r.panic
          /\ call' = [in_len |-> Len(input), out_len |-> out_len,
                      pairs |-> r.handled - handled]
          /\ handled' = r.handled
          /\ consumed' = r.consumed
          /\ reads' = r.reads
          /\ writes' = r.writes
          /\ produced' = r.produced
    /\ UNCHANGED settings

\* The slices of every length, of a constant signal: what a call does with
\* the shapes of its slices does not depend on the samples.
ShapeInputs == { [i \in 1..n |-> One] : n \in 0..MaxInLen }

\* Any call: slices of any length, whole pairs or not, output room or not.
Next == \E input \in ShapeInputs, out_len \in 0..MaxOutLen : Process(input, out_len)

\* The samples of a sequence of pairs, interleaved.
Interleave(pairs) == [i \in 1..(2 * Len(pairs)) |-> pairs[(i + 1) \div 2][2 - (i % 2)]]

\* The input pairs of the signals: silence, and a unit sample on the left or
\* on the right channel.
InputPairs == { << Zero, Zero >>, << One, Zero >>, << Zero, One >> }

\* The slices of whole pairs (one pair at least) of every signal.
SignalInputs ==
    { Interleave(pairs) : pairs \in SeqsUpTo(InputPairs, MaxInLen \div 2) \ {<<>>} }

\* A streaming caller (examples/basic.rs): slices of whole pairs, the output
\* slice as long as the input slice.
NextSignal == \E input \in SignalInputs : Process(input, Len(input))

Spec == Init /\ [][Next]_vars

SpecSignal == Init /\ [][NextSignal]_vars

\* ------------------------------------------------------------------ claims

Min(a, b) == IF a < b THEN a ELSE b
ZeroPair == << Zero, Zero >>
BufferLength == Len(state.delay_buffer)

\* C1: with an input of whole pairs (and a delay buffer that is not empty),
\* process completes and handles exactly min(len(input)/2, len(output)/2)
\* pairs: with less output room than input pairs it stops after
\* len(output)/2 pairs and never writes at an index >= len(output).
C1_HandlesMinPairs ==
    (BufferLength > 0 /\ call.in_len % 2 = 0) =>
        /\ panic = "none"
        /\ call.pairs = Min(call.in_len \div 2, call.out_len \div 2)

\* C2: a Delay whose delay buffer has length 0 is rejected at construction,
\* so that process never indexes an empty delay buffer.
C2_ZeroLengthRejected == panic # "delay_buffer"

\* C3: with an input of odd length the trailing sample is ignored: the call
\* reads nothing out of bounds and, given the output room, completes having
\* handled floor(len(input)/2) pairs.
C3_OddInputIgnored ==
    (BufferLength > 0 /\ call.in_len % 2 = 1) =>
        /\ panic # "input_chunk"
        /\ call.out_len >= call.in_len =>
              panic = "none" /\ call.pairs = call.in_len \div 2

\* Round to nearest of a fraction <<numerator, denominator>> that is >= 0.
RoundNearest(x) == (2 * x[1] + x[2]) \div (2 * x[2])

C7_CursorIsHandledModLength ==
    BufferLength > 0 =>
        /\ state.delay_buffer_index = handled % BufferLength
        /\ state.delay_buffer_index \in 0..(BufferLength - 1)
        /\ BufferLength = Len(Delay_new(settings).delay_buffer)

\* The cursor has wrapped: more pairs handled than the buffer is long.
C7_Witness ==
    BufferLength = 2 /\ handled = 3 /\ state.delay_buffer_index = 1

\* C10: with a delay buffer of length L > 0, the raw delay-line value read
\* for the k-th pair (over all calls) is (0, 0) for the first L pairs and
\* afterwards the value stored for the pair L places earlier.
C10_DelayIsExactlyLength ==
    BufferLength > 0 =>
        \A k \in 1..Len(reads) :
            reads[k] = IF k <= BufferLength THEN ZeroPair ELSE writes[k - BufferLength]

\* A stored value that is not zero is read back two pairs later.
C10_Witness ==
    BufferLength = 2 /\ Len(reads) >= 3 /\ reads[3] = writes[1] /\ reads[3] # ZeroPair

\* C5: with feedback = 0, dry_wet_mix = 1, output_level = 1, a unit impulse
\* at pair 0 followed by zeros gives an output that is not zero exactly L
\* pairs later (L the delay buffer length) and zero at every other pair.
C5_ImpulseEchoAtLength ==
    ( /\ settings.feedback = Zero
      /\ settings.dry_wet_mix = One
      /\ settings.output_level = One
      /\ BufferLength > 0
      /\ Len(produced) > BufferLength
      /\ consumed[1] \in { << One, Zero >>, << Zero, One >> }
      /\ \A k \in 2..Len(consumed) : consumed[k] = ZeroPair )
    => /\ produced[BufferLength + 1] # ZeroPair
       /\ \A k \in 1..Len(produced) : k # BufferLength + 1 => produced[k] = ZeroPair

\* A second Delay built with the settings s and given, in one call with all
\* the output room, the pairs this Delay has read.
Twin(s) ==
    process(s, Delay_new(s), Interleave(consumed),
            [i \in 1..(2 * Len(consumed)) |-> Zero],
            [handled |-> 0, consumed |-> <<>>, reads |-> <<>>, writes |-> <<>>,
             produced |-> <<>>])

\* C6 as stated: a Delay with ping_pong = true and width = 0 has the delay
\* buffer and the outputs of a Delay with the same settings but
\* ping_pong = false that was given the same input.
C6_WidthZeroIsNoPingPong ==
    (settings.ping_pong /\ settings.width = Zero /\ panic = "none") =>
        LET twin == Twin([settings EXCEPT !.ping_pong = FALSE])
        IN /\ state.delay_buffer = twin.state.delay_buffer
           /\ produced = twin.produced

\* C6 as amended: with ping_pong = true and width = 0 the value stored for a
\* pair is, in each channel, half of that channel's input plus one value
\* common to both channels (the mean of the two delayed channels), and the
\* outputs are those of the Delay without ping-pong for the first L pairs.
C6_WidthZeroIsMono ==
    (settings.ping_pong /\ settings.width = Zero /\ BufferLength > 0) =>
        LET twin == Twin([settings EXCEPT !.ping_pong = FALSE])
        IN /\ \A k \in 1..Len(writes) :
                Sub(writes[k][1], Mul(Half, consumed[k][1]))
                    = Sub(writes[k][2], Mul(Half, consumed[k][2]))
           /\ \A k \in 1..Min(BufferLength, Len(produced)) : produced[k] = twin.produced[k]

\* With ping_pong = true and width = 0, an echo has come back and the buffer
\* and the outputs are not those of the Delay without ping-pong.
C6_Witness ==
    /\ settings.ping_pong /\ settings.width = Zero /\ panic = "none"
    /\ BufferLength = 1 /\ Len(reads) >= 2 /\ reads[2] # ZeroPair
    /\ LET twin == Twin([settings EXCEPT !.ping_pong = FALSE])
       IN state.delay_buffer # twin.state.delay_buffer /\ produced # twin.produced

\* The settings of this Delay with ping_pong off, and with ping_pong on at
\* every width.
PingPongVariants ==
    { [settings EXCEPT !.ping_pong = FALSE] }
        \cup { [settings EXCEPT !.ping_pong = TRUE, !.width = w] : w \in Widths }

\* One channel of the value that is mixed into the output for the next pair:
\* the raw delay-line value scaled by the feedback, negated with
\* phase_reverse, through the lowpass (b x + (1 - b) z1) and then the
\* highpass (x minus its lowpass).
WetChannel(raw, lp, hp) ==
    LET fb == Mul(raw, settings.feedback)
        x == IF settings.phase_reverse THEN Neg(fb) ELSE fb
        low == Add(Mul(lp.b, x), Mul(Sub(One, lp.b), lp.z1))
    IN Sub(low, Add(Mul(hp.b, low), Mul(Sub(One, hp.b), hp.z1)))

\* C9: the output for one pair is
\* output_level * (in * (1 - dry_wet_mix) + delayed * dry_wet_mix) per
\* channel, delayed being the filtered feedback value, and from the same
\* state and input it is the same with ping_pong true or false and with
\* any width.
C9_OutputIgnoresPingPong ==
    (BufferLength > 0 /\ panic = "none") =>
        LET raw == state.delay_buffer[state.delay_buffer_index + 1]
            wet == << WetChannel(raw[1], state.lowpass_filter.left, state.highpass_filter.left),
                      WetChannel(raw[2], state.lowpass_filter.right, state.highpass_filter.right) >>
            dry == Sub(One, settings.dry_wet_mix)
        IN \A in \in InputPairs, s \in PingPongVariants :
              process_pair(s, state, in).out
                = << Mul(settings.output_level,
                         Add(Mul(in[1], dry), Mul(wet[1], settings.dry_wet_mix))),
                     Mul(settings.output_level,
                         Add(Mul(in[2], dry), Mul(wet[2], settings.dry_wet_mix))) >>

\* An echo is in the delay line and in the filters, wet and dry are mixed,
\* and the two channels of the last output differ.
C9_Witness ==
    /\ BufferLength > 0 /\ panic = "none" /\ handled >= 2
    /\ settings.ping_pong /\ settings.dry_wet_mix = Half /\ settings.output_level = Half
    /\ state.delay_buffer[state.delay_buffer_index + 1] # ZeroPair
    /\ state.highpass_filter.left.z1 # Zero
    /\ produced[Len(produced)][1] # produced[Len(produced)][2]

====
